---- MODULE Spec2Model ----
(***************************************************************************)
(* Model of delete-removed-files (src/src/main.rs): scan the RAW folder    *)
(* and its JPG subfolder, keep the JPEGs whose stem has no RAW file, and   *)
(* ask Finder (through osascript) to delete each of them.                  *)
(*                                                                         *)
(* Text is a sequence of one-character strings.  The characters in         *)
(* Invalid stand for bytes of an OsStr that are not valid UTF-8.           *)
(***************************************************************************)
EXTENDS Integers, Sequences, FiniteSets, TLC

VARIABLES pc, exe, rawDir, jpgDir, allowed_extensions, jpg_folder_path,
          jpg_folder_path_hfs, raw_files, jpg_files,
          unused_files_in_jpg_folder, idx, child, out, status

vars == <<pc, exe, rawDir, jpgDir, allowed_extensions, jpg_folder_path,
          jpg_folder_path_hfs, raw_files, jpg_files,
          unused_files_in_jpg_folder, idx, child, out, status>>

\* ------------------------------------------------------------------ bounds
MaxNameLen == 4
MaxEntries == 2
MaxRecs == 3

\* ------------------------------------------------------------------- text
Invalid == {"xFF", "xFE"}

UpperCase == <<"A", "B", "E", "G", "J", "P", "R", "W">>
LowerCase == <<"a", "b", "e", "g", "j", "p", "r", "w">>

CharToLower(c) ==
    IF \E i \in DOMAIN UpperCase : UpperCase[i] = c
    THEN LowerCase[CHOOSE i \in DOMAIN UpperCase : UpperCase[i] = c]
    ELSE c

to_lowercase(s) == [i \in DOMAIN s |-> CharToLower(s[i])]

Contains(seq, x) == \E i \in DOMAIN seq : seq[i] = x

\* Option<T>
None == [some |-> FALSE, val |-> <<>>]
Some(v) == [some |-> TRUE, val |-> v]
OptOr(o, d) == IF o.some THEN o ELSE d
Unwrap(o) == o.val

\* OsStr::to_str: None unless the bytes are valid Unicode
to_str(s) == IF \A i \in DOMAIN s : s[i] \notin Invalid THEN Some(s) ELSE None

\* |s| s.to_str().or(Some("")).unwrap()
StrOrEmpty(s) == Unwrap(OptOr(to_str(s), Some(<<>>)))

\* .map(|s| s.to_str().or(Some("")).unwrap()).or(Some("")).unwrap().to_string()
TextOrEmpty(o) ==
    Unwrap(OptOr(IF o.some THEN Some(StrOrEmpty(o.val)) ELSE None, Some(<<>>)))

\* ----------------------------------------------------------- program constants
JPG_FOLDER == <<"J", "P", "G">>
RAW_ALLOWED_FILE_EXTENSIONS == << <<"a", "r", "w">> >>
JPG_ALLOWED_FILE_EXTENSIONS == << <<"j", "p", "g">>, <<"j", "p", "e", "g">> >>
NotFoundSignature == <<"2", "9", ":", "1", "0", "6">>

\* ------------------------------------------------------- Path components
\* Position of the last '.' of a name, scanning from the right; 0 if none.
RECURSIVE RFindDot(_, _)
RFindDot(s, i) ==
    IF i = 0 THEN 0
    ELSE IF s[i] = "." THEN i ELSE RFindDot(s, i - 1)

\* (before, after) of the last '.'; a name whose only '.' is the first
\* character is not split.
rsplit_file_at_dot(file) ==
    IF file = <<".", ".">> THEN <<Some(file), None>>
    ELSE LET d == RFindDot(file, Len(file))
             after == Some(SubSeq(file, d + 1, Len(file)))
             before == IF d = 0 THEN None ELSE Some(SubSeq(file, 1, d - 1))
         IN  IF before = Some(<<>>) THEN <<Some(file), None>>
             ELSE <<before, after>>

\* Path::file_name of dir_entry.path(): the last component
file_name(path) ==
    IF path = <<".", ".">> \/ path = <<>> THEN None ELSE Some(path)

\* Path::file_stem: before.or(after)
file_stem(path) ==
    LET f == file_name(path)
    IN  IF ~f.some THEN None
        ELSE LET sp == rsplit_file_at_dot(f.val) IN OptOr(sp[1], sp[2])

\* Path::extension: before.and(after)
extension(path) ==
    LET f == file_name(path)
    IN  IF ~f.some THEN None
        ELSE LET sp == rsplit_file_at_dot(f.val)
             IN  IF sp[1].some THEN sp[2] ELSE None

\* impl From<DirEntry> for Filename, splitting at the last '.' wherever it is
Filename_from_SplitLeadingDot(dir_entry) ==
    LET n == dir_entry.name
        d == RFindDot(n, Len(n))
    IN  [filename  |-> StrOrEmpty(n),
         name      |-> StrOrEmpty(IF d = 0 THEN n ELSE SubSeq(n, 1, d - 1)),
         extension |-> to_lowercase(StrOrEmpty(
                           IF d = 0 THEN <<>> ELSE SubSeq(n, d + 1, Len(n))))]

\* impl From<DirEntry> for Filename
Filename_from(dir_entry) ==
    [filename  |-> TextOrEmpty(file_name(dir_entry.name)),
     name      |-> TextOrEmpty(file_stem(dir_entry.name)),
     extension |-> to_lowercase(TextOrEmpty(extension(dir_entry.name)))]


\* Result<T>
Ok(v) == [ok |-> TRUE, val |-> v, err |-> ""]
Err(e) == [ok |-> FALSE, val |-> <<>>, err |-> e]

\* ------------------------------------------------------------- directories
\* A directory is what fs::read_dir gives: unreadable, or a sequence of
\* items, each a DirEntry or an error.
Entry(n) == [ok |-> TRUE, name |-> n]
BadEntry == [ok |-> FALSE, name |-> <<>>]

\* filter_map(|file| match file { Ok(file) => Some(file.into()), _ => None })
RECURSIVE FilterMapEntries(_)
FilterMapEntries(items) ==
    IF items = <<>> THEN <<>>
    ELSE LET rest == FilterMapEntries(Tail(items))
         IN  IF Head(items).ok THEN <<Filename_from(Head(items))>> \o rest
             ELSE rest

get_filenames_of_folder(dir) ==
    IF ~dir.readable THEN Err("Could not read directory")
    ELSE Ok(FilterMapEntries(dir.items))

\* the filter comparing with the first allowed extension only
get_filenames_with_first_extension_only(dir, allowed) ==
    LET r == get_filenames_of_folder(dir)
        Keep(file) == allowed # <<>> /\ allowed[1] = file.extension
    IN  IF ~r.ok THEN r ELSE Ok(SelectSeq(r.val, Keep))

get_filenames_of_folder_with_valid_extension(dir, allowed) ==
    LET r == get_filenames_of_folder(dir)
        Keep(file) == Contains(allowed, file.extension)
    IN  IF ~r.ok THEN r ELSE Ok(SelectSeq(r.val, Keep))

\* the filter collecting into a set of stems: a later candidate with the
\* stem of an earlier one is dropped
RECURSIVE KeepFirstOfEachName(_, _)
KeepFirstOfEachName(files, seen) ==
    IF files = <<>> THEN <<>>
    ELSE IF Head(files).name \in seen
         THEN KeepFirstOfEachName(Tail(files), seen)
         ELSE <<Head(files)>> \o
              KeepFirstOfEachName(Tail(files), seen \cup {Head(files).name})

find_duplicate_file_Dedup(compare_files, target_files) ==
    KeepFirstOfEachName(target_files,
                        {compare_files[i].name : i \in DOMAIN compare_files})

\* the filter with the negation dropped: keeps the matched files
find_duplicate_file_Matched(compare_files, target_files) ==
    LET compare_names == [i \in DOMAIN compare_files |-> compare_files[i].name]
        Keep(filename) == Contains(compare_names, filename.name)
    IN  SelectSeq(target_files, Keep)

find_duplicate_file(compare_files, target_files) ==
    LET compare_names == [i \in DOMAIN compare_files |-> compare_files[i].name]
        Keep(filename) == ~Contains(compare_names, filename.name)
    IN  SelectSeq(target_files, Keep)

\* ------------------------------------------------------------------- paths
\* A path is a sequence of components, each a text.
path_to_str(path) ==
    IF \A i \in DOMAIN path : to_str(path[i]).some THEN Some(path) ELSE None

\* the path as one text
RECURSIVE path_display(_)
path_display(path) ==
    IF path = <<>> THEN <<>>
    ELSE <<"/">> \o Head(path) \o path_display(Tail(path))

path_parent(path) ==
    IF path = <<>> THEN None ELSE Some(SubSeq(path, 1, Len(path) - 1))

get_pwd(current_exe) ==
    IF ~current_exe.ok THEN Err("Could not get current executable path")
    ELSE LET parent == path_parent(current_exe.val)
         IN  IF ~parent.some THEN Err("Could not get parent directory")
             ELSE IF ~path_to_str(parent.val).some
                  THEN Err("Could not get string from path")
                  ELSE Ok(parent.val)

\* ----------------------------------------------------------------- osascript
Whitespace == {" ", "\n"}

RECURSIVE trim_start(_)
trim_start(s) ==
    IF s # <<>> /\ Head(s) \in Whitespace THEN trim_start(Tail(s)) ELSE s

RECURSIVE trim_end(_)
trim_end(s) ==
    IF s # <<>> /\ s[Len(s)] \in Whitespace
    THEN trim_end(SubSeq(s, 1, Len(s) - 1)) ELSE s

trim(s) == trim_start(trim_end(s))

\* convert_to_hfs_path, given what Command::output() returned
convert_to_hfs_path(path, output) ==
    LET stdout == IF ~path_to_str(path).some
                  THEN Err("Could not get string from path.")
                  ELSE IF ~output.ok
                       THEN Err("Cannot get HFS convert Output")
                       ELSE Ok(output.val.stdout)
    IN  IF ~stdout.ok THEN stdout
        ELSE IF ~to_str(stdout.val).some THEN Err("Could not convert to utf8")
             ELSE Ok(trim(stdout.val))

\* String::from_utf8_lossy: invalid bytes become U+FFFD
from_utf8_lossy(bytes) ==
    [i \in DOMAIN bytes |-> IF bytes[i] \in Invalid THEN "U+FFFD" ELSE bytes[i]]

\* str::contains with a pattern text
str_contains(s, pat) ==
    \E i \in 0..Len(s) :
        i + Len(pat) <= Len(s) /\ SubSeq(s, i + 1, i + Len(pat)) = pat

\* What the run does that can be seen from outside: the lines it prints,
\* the osascript processes it asks for, and their exits.
\* A run event tells whether the process could be started; an exit event
\* carries the exit status and the bytes the process wrote.
Line(kind, text) ==
    [ev |-> "print", kind |-> kind, ok |-> TRUE, text |-> text,
     folder |-> <<>>]
Run(kind, launched, text, folder) ==
    [ev |-> "run", kind |-> kind, ok |-> launched, text |-> text,
     folder |-> folder]
Exited(kind, success, bytes) ==
    [ev |-> "exit", kind |-> kind, ok |-> success, text |-> bytes,
     folder |-> <<>>]

\* print_result treating every failed exit as a missing file
print_result_AlwaysNotFound(output, file) ==
    IF output.success THEN Line("Deleted", file)
    ELSE Line("NotFound", file)

print_result(output, file) ==
    IF output.success THEN Line("Deleted", file)
    ELSE LET error == from_utf8_lossy(output.stderr)
         IN  IF str_contains(error, NotFoundSignature)
             THEN Line("NotFound", file)
             ELSE Line("Other", error)


\* delete_files, given what Command::output() returned: the Result handed
\* back to main and the lines print_result wrote
delete_files(filename, hfs_folder_path, output) ==
    IF ~output.ok
    THEN [result |-> Err("Could not delete file, cause the command failed"),
          printed |-> <<>>]
    ELSE [result |-> Ok(<<>>),
          printed |-> <<print_result(output.val, filename.filename)>>]

\* ------------------------------------------------------------- environment
\* env::current_exe()
ExeChoices ==
    { Err("current_exe"),
      Ok(<<>>),
      Ok(<< <<"V">>, <<"x">> >>),
      Ok(<< <<"xFF">>, <<"x">> >>) }

\* Output of the path conversion: the alias text and a newline; nothing on
\* a failed exit; bytes that are not UTF-8
HfsOutputs ==
    { [success |-> TRUE,  stdout |-> <<"V", ":", "J", "P", "G", ":", "\n">>],
      [success |-> FALSE, stdout |-> <<>>],
      [success |-> TRUE,  stdout |-> <<"xFF", "\n">>] }

\* Output of the Finder delete
DeleteOutputs ==
    { [success |-> TRUE,  stderr |-> <<>>],
      [success |-> TRUE,  stderr |-> NotFoundSignature],
      [success |-> FALSE, stderr |-> <<"(">> \o NotFoundSignature \o <<")">>],
      [success |-> FALSE, stderr |-> <<"2", "9", ":", "1", "0", "xFF", "6">>] }

N(s) == Entry(s)
RawPool ==
    { N(<<"a", ".", "a", "r", "w">>),
      N(<<"b", ".", "A", "R", "W">>),
      N(<<"b", ".", "j", "p", "g">>),
      N(<<"xFE", ".", "a", "r", "w">>) }
JpgPool ==
    { N(<<"a", ".", "j", "p", "g">>),
      N(<<"a", ".", "J", "P", "E", "G">>),
      N(<<"b", ".", "j", "p", "g">>),
      N(<<"xFF", ".", "j", "p", "g">>),
      N(<<".", "j", "p", "g">>),
      BadEntry }

\* listings of at most n distinct items of a pool, in any order
Listings(pool, n) ==
    UNION { { s \in [1..k -> pool] : \A i, j \in 1..k : s[i] = s[j] => i = j }
            : k \in 0..n }

Dirs(pool, n) ==
    { [readable |-> FALSE, items |-> <<>>] } \cup
    { [readable |-> TRUE, items |-> s] : s \in Listings(pool, n) }

Running == [exit |-> "running", error |-> ""]

\* ---------------------------------------------------------------------- main
Init ==
    /\ pc = "start"
    /\ exe \in ExeChoices
    /\ rawDir \in Dirs(RawPool, MaxEntries)
    /\ jpgDir \in Dirs(JpgPool, MaxEntries)
    /\ allowed_extensions = <<>>
    /\ jpg_folder_path = <<>>
    /\ jpg_folder_path_hfs = <<>>
    /\ raw_files = <<>>
    /\ jpg_files = <<>>
    /\ unused_files_in_jpg_folder = <<>>
    /\ idx = 1
    /\ child = 0
    /\ out = <<>>
    /\ status = Running

\* the ? operator: main returns the error, the process exits with failure
Abort(e) ==
    /\ pc' = "failed"
    /\ status' = [exit |-> "failure", error |-> e]

\* println!("Start deleting duplicated files")
Start ==
    /\ pc = "start"
    /\ out' = Append(out, Line("Start", <<>>))
    /\ pc' = "get_pwd"
    /\ UNCHANGED <<exe, rawDir, jpgDir, allowed_extensions, jpg_folder_path,
                   jpg_folder_path_hfs, raw_files, jpg_files,
                   unused_files_in_jpg_folder, idx, child, status>>

\* get_pwd()? and the two folder paths
GetPwd ==
    /\ pc = "get_pwd"
    /\ LET raw_folder_path == get_pwd(exe)
       IN  IF ~raw_folder_path.ok
           THEN Abort(raw_folder_path.err) /\ UNCHANGED jpg_folder_path
           ELSE /\ jpg_folder_path' = Append(raw_folder_path.val, JPG_FOLDER)
                /\ pc' = "localize"
                /\ UNCHANGED status
    /\ UNCHANGED <<exe, rawDir, jpgDir, allowed_extensions,
                   jpg_folder_path_hfs, raw_files, jpg_files,
                   unused_files_in_jpg_folder, idx, child, out>>

\* convert_to_hfs_path up to Command::output(): the path as text, then the
\* osascript process is started, or cannot be
LocalizeSpawn ==
    /\ pc = "localize"
    /\ \E launched \in BOOLEAN :
         IF ~path_to_str(jpg_folder_path).some \/ ~launched
         THEN /\ Abort(convert_to_hfs_path(jpg_folder_path, Err("spawn")).err)
              /\ out' = IF path_to_str(jpg_folder_path).some
                        THEN Append(out, Run("localize", FALSE, <<>>,
                                             path_display(jpg_folder_path)))
                        ELSE out
              /\ UNCHANGED child
         ELSE /\ out' = Append(out, Run("localize", TRUE, <<>>,
                                        path_display(jpg_folder_path)))
              /\ child' = child + 1
              /\ pc' = "localize_wait"
              /\ UNCHANGED status
    /\ UNCHANGED <<exe, rawDir, jpgDir, allowed_extensions, jpg_folder_path,
                   jpg_folder_path_hfs, raw_files, jpg_files,
                   unused_files_in_jpg_folder, idx>>

\* the osascript process exits; its stdout becomes the localized path
LocalizeExit ==
    /\ pc = "localize_wait"
    /\ \E op \in HfsOutputs :
         LET r == convert_to_hfs_path(jpg_folder_path, Ok(op))
         IN  /\ child' = child - 1
             /\ out' = Append(out, Exited("localize", op.success, op.stdout))
             /\ IF ~r.ok
                THEN Abort(r.err) /\ UNCHANGED jpg_folder_path_hfs
                ELSE /\ jpg_folder_path_hfs' = r.val
                     /\ pc' = "scan_raw"
                     /\ UNCHANGED status
    /\ UNCHANGED <<exe, rawDir, jpgDir, allowed_extensions, jpg_folder_path,
                   raw_files, jpg_files, unused_files_in_jpg_folder, idx>>

\* get_filenames_of_folder_with_valid_extension(raw_folder_path, RAW...)?
ScanRaw ==
    /\ pc = "scan_raw"
    /\ allowed_extensions' = RAW_ALLOWED_FILE_EXTENSIONS
    /\ LET r == get_filenames_of_folder_with_valid_extension(
                    rawDir, RAW_ALLOWED_FILE_EXTENSIONS)
       IN  IF ~r.ok
           THEN Abort(r.err) /\ UNCHANGED raw_files
           ELSE /\ raw_files' = r.val
                /\ pc' = "scan_jpg"
                /\ UNCHANGED status
    /\ UNCHANGED <<exe, rawDir, jpgDir, jpg_folder_path, jpg_folder_path_hfs,
                   jpg_files, unused_files_in_jpg_folder, idx, child, out>>

\* get_filenames_of_folder_with_valid_extension(jpg_folder_path, JPG...)?
ScanJpg ==
    /\ pc = "scan_jpg"
    /\ allowed_extensions' = JPG_ALLOWED_FILE_EXTENSIONS
    /\ LET r == get_filenames_of_folder_with_valid_extension(
                    jpgDir, JPG_ALLOWED_FILE_EXTENSIONS)
       IN  IF ~r.ok
           THEN Abort(r.err) /\ UNCHANGED jpg_files
           ELSE /\ jpg_files' = r.val
                /\ pc' = "find_duplicate"
                /\ UNCHANGED status
    /\ UNCHANGED <<exe, rawDir, jpgDir, jpg_folder_path, jpg_folder_path_hfs,
                   raw_files, unused_files_in_jpg_folder, idx, child, out>>

\* find_duplicate_file(raw_files, jpg_files)
FindDuplicate ==
    /\ pc = "find_duplicate"
    /\ unused_files_in_jpg_folder' = find_duplicate_file(raw_files, jpg_files)
    /\ idx' = 1
    /\ pc' = "loop"
    /\ UNCHANGED <<exe, rawDir, jpgDir, allowed_extensions, jpg_folder_path,
                   jpg_folder_path_hfs, raw_files, jpg_files, child, out,
                   status>>


\* the loop with delete_files(..)? : a delete that cannot be started ends
\* the run with its error
DeleteSpawn_FailFast ==
    /\ pc = "loop"
    /\ idx <= Len(unused_files_in_jpg_folder)
    /\ LET file == unused_files_in_jpg_folder[idx]
           asked(launched) ==
               Append(out, Run("delete", launched, file.filename,
                               jpg_folder_path_hfs))
       IN  \E launched \in BOOLEAN :
             IF launched
             THEN /\ out' = asked(TRUE)
                  /\ child' = child + 1
                  /\ pc' = "delete_wait"
                  /\ UNCHANGED <<idx, status>>
             ELSE LET r == delete_files(file, jpg_folder_path_hfs,
                                        Err("spawn"))
                  IN  /\ out' = asked(FALSE) \o r.printed
                      /\ Abort(r.result.err)
                      /\ UNCHANGED <<child, idx>>
    /\ UNCHANGED <<exe, rawDir, jpgDir, allowed_extensions, jpg_folder_path,
                   jpg_folder_path_hfs, raw_files, jpg_files,
                   unused_files_in_jpg_folder>>

\* the loop starting each delete without waiting for it: spawn() for
\* output()
DeleteSpawn_NoWait ==
    /\ pc = "loop"
    /\ idx <= Len(unused_files_in_jpg_folder)
    /\ LET file == unused_files_in_jpg_folder[idx]
       IN  \E launched \in BOOLEAN :
             /\ out' = Append(out, Run("delete", launched, file.filename,
                                       jpg_folder_path_hfs))
             /\ child' = IF launched THEN child + 1 ELSE child
             /\ idx' = idx + 1
             /\ UNCHANGED pc
    /\ UNCHANGED <<exe, rawDir, jpgDir, allowed_extensions, jpg_folder_path,
                   jpg_folder_path_hfs, raw_files, jpg_files,
                   unused_files_in_jpg_folder, status>>

\* one turn of the for_each up to Command::output(): the delete is asked
\* for; if osascript cannot be started, delete_files returns the error and
\* main prints it
DeleteSpawn ==
    /\ pc = "loop"
    /\ idx <= Len(unused_files_in_jpg_folder)
    /\ LET file == unused_files_in_jpg_folder[idx]
           asked(launched) ==
               Append(out, Run("delete", launched, file.filename,
                               jpg_folder_path_hfs))
       IN  \E launched \in BOOLEAN :
             IF launched
             THEN /\ out' = asked(TRUE)
                  /\ child' = child + 1
                  /\ pc' = "delete_wait"
                  /\ UNCHANGED idx
             ELSE LET r == delete_files(file, jpg_folder_path_hfs,
                                        Err("spawn"))
                  IN  /\ out' = asked(FALSE) \o r.printed \o
                                (IF ~r.result.ok
                                 THEN <<Line("LaunchErr", file.filename)>>
                                 ELSE <<>>)
                      /\ idx' = idx + 1
                      /\ UNCHANGED <<child, pc>>
    /\ UNCHANGED <<exe, rawDir, jpgDir, allowed_extensions, jpg_folder_path,
                   jpg_folder_path_hfs, raw_files, jpg_files,
                   unused_files_in_jpg_folder, status>>

\* the loop treating a failed delete as fatal
DeleteExit_AbortOnFailure ==
    /\ pc = "delete_wait"
    /\ \E op \in DeleteOutputs :
         LET file == unused_files_in_jpg_folder[idx]
             r == delete_files(file, jpg_folder_path_hfs, Ok(op))
         IN  /\ out' = Append(out, Exited("delete", op.success, op.stderr))
                       \o r.printed
             /\ child' = child - 1
             /\ idx' = idx + 1
             /\ IF op.success
                THEN pc' = "loop" /\ UNCHANGED status
                ELSE Abort("Could not delete file")
    /\ UNCHANGED <<exe, rawDir, jpgDir, allowed_extensions, jpg_folder_path,
                   jpg_folder_path_hfs, raw_files, jpg_files,
                   unused_files_in_jpg_folder>>

\* the delete process exits; print_result reports it and the loop goes on
DeleteExit ==
    /\ pc = "delete_wait"
    /\ \E op \in DeleteOutputs :
         LET file == unused_files_in_jpg_folder[idx]
             r == delete_files(file, jpg_folder_path_hfs, Ok(op))
         IN  /\ out' = Append(out, Exited("delete", op.success, op.stderr))
                       \o r.printed \o
                       (IF ~r.result.ok
                        THEN <<Line("LaunchErr", file.filename)>>
                        ELSE <<>>)
             /\ child' = child - 1
             /\ idx' = idx + 1
             /\ pc' = "loop"
    /\ UNCHANGED <<exe, rawDir, jpgDir, allowed_extensions, jpg_folder_path,
                   jpg_folder_path_hfs, raw_files, jpg_files,
                   unused_files_in_jpg_folder, status>>

\* println!("Done"); Ok(())
Finish ==
    /\ pc = "loop"
    /\ idx > Len(unused_files_in_jpg_folder)
    /\ out' = Append(out, Line("Done", <<>>))
    /\ status' = [exit |-> "success", error |-> ""]
    /\ pc' = "done"
    /\ UNCHANGED <<exe, rawDir, jpgDir, allowed_extensions, jpg_folder_path,
                   jpg_folder_path_hfs, raw_files, jpg_files,
                   unused_files_in_jpg_folder, idx, child>>

Next ==
    \/ Start
    \/ GetPwd
    \/ LocalizeSpawn
    \/ LocalizeExit
    \/ ScanRaw
    \/ ScanJpg
    \/ FindDuplicate
    \/ DeleteSpawn
    \/ DeleteExit
    \/ Finish

Spec == Init /\ [][Next]_vars

TypeOK ==
    /\ pc \in {"start", "get_pwd", "localize", "localize_wait", "scan_raw",
               "scan_jpg", "find_duplicate", "loop", "delete_wait", "done",
               "failed"}
    /\ child \in 0..1
    /\ idx \in 1..(Len(unused_files_in_jpg_folder) + 1)


\* ===================================================== Filename::from alone
NameAlphabet == {"a", "J", ".", "xFF"}

\* the base names a directory can hold: not empty, not "." and not ".."
Names(n) ==
    UNION { [1..k -> NameAlphabet] : k \in 1..n } \ { <<".">>, <<".", ".">> }

InitFilename ==
    /\ pc = "parse"
    /\ exe = Ok(<<>>)
    /\ rawDir \in { [readable |-> TRUE, items |-> <<Entry(n)>>]
                    : n \in Names(MaxNameLen) }
    /\ jpgDir = [readable |-> TRUE, items |-> <<>>]
    /\ allowed_extensions = <<>>
    /\ jpg_folder_path = <<>>
    /\ jpg_folder_path_hfs = <<>>
    /\ raw_files = <<>>
    /\ jpg_files = <<>>
    /\ unused_files_in_jpg_folder = <<>>
    /\ idx = 1
    /\ child = 0
    /\ out = <<>>
    /\ status = Running

\* get_filenames_of_folder on a folder of one entry
ParseEntry ==
    /\ pc = "parse"
    /\ LET r == get_filenames_of_folder(rawDir)
       IN  IF ~r.ok
           THEN Abort(r.err) /\ UNCHANGED raw_files
           ELSE /\ raw_files' = r.val
                /\ pc' = "parsed"
                /\ UNCHANGED status
    /\ UNCHANGED <<exe, rawDir, jpgDir, allowed_extensions, jpg_folder_path,
                   jpg_folder_path_hfs, jpg_files,
                   unused_files_in_jpg_folder, idx, child, out>>

NextFilename == ParseEntry

SpecFilename == InitFilename /\ [][NextFilename]_vars

\* the position of the final '.' of a name, 0 if it has none
FinalDot(n) ==
    IF \E i \in DOMAIN n : n[i] = "."
    THEN CHOOSE i \in DOMAIN n :
             n[i] = "." /\ \A j \in DOMAIN n : n[j] = "." => j <= i
    ELSE 0

IsText(s) == \A i \in DOMAIN s : s[i] \notin Invalid
AsText(s) == IF IsText(s) THEN s ELSE <<>>

ParsedName == rawDir.items[1].name
ParsedRecord == raw_files[1]

\* C8 as stated: for every base name, full_name is the base name, the
\* extension is the lowercased text after the final '.' (empty if there is
\* no '.'), and the stem is the base name without that segment.
C8_AsClaimed ==
    pc = "parsed" =>
        LET n == ParsedName
            d == FinalDot(n)
            f == ParsedRecord
        IN  /\ Len(raw_files) = 1
            /\ f.filename = n
            /\ IF d = 0
               THEN f.extension = <<>> /\ f.name = n
               ELSE /\ f.extension = to_lowercase(SubSeq(n, d + 1, Len(n)))
                    /\ f.name = SubSeq(n, 1, d - 1)

\* C8 amended: the name is split at its final '.' unless that '.' is the
\* first character (or there is none), in which case the stem is the whole
\* name and the extension is empty; full_name, stem and extension are each
\* the empty string when their bytes are not valid text; the extension is
\* lowercased; exactly one record comes out and no error.
C8_FilenameParts ==
    pc # "failed" /\
    (pc = "parsed" =>
        LET n == ParsedName
            d == FinalDot(n)
            f == ParsedRecord
        IN  /\ Len(raw_files) = 1
            /\ f.filename = AsText(n)
            /\ IF d <= 1
               THEN f.extension = <<>> /\ f.name = AsText(n)
               ELSE /\ f.extension =
                           to_lowercase(AsText(SubSeq(n, d + 1, Len(n))))
                    /\ f.name = AsText(SubSeq(n, 1, d - 1)))

\* a name that begins with its only '.' and has an upper-case letter
C8_Witness ==
    /\ pc = "parsed"
    /\ ParsedName = <<".", "J", "a">>
    /\ ParsedRecord.name = <<".", "J", "a">>
    /\ ParsedRecord.extension = <<>>


\* res is the records of src at the positions K, in the order of src
IsOrderedSelection(res, src, K) ==
    /\ Len(res) = Cardinality(K)
    /\ \A i \in K : res[Cardinality({j \in K : j <= i})] = src[i]

\* ============================================== the filtered scan alone
ScanPool == RawPool \cup JpgPool \cup {N(<<"a">>)}

ExtensionLists ==
    { RAW_ALLOWED_FILE_EXTENSIONS, JPG_ALLOWED_FILE_EXTENSIONS,
      << <<"j", "p", "g">> >>, <<>> }

InitScan ==
    /\ pc = "scan"
    /\ exe = Ok(<<>>)
    /\ rawDir \in Dirs(ScanPool, MaxEntries)
    /\ jpgDir = [readable |-> TRUE, items |-> <<>>]
    /\ allowed_extensions \in ExtensionLists
    /\ jpg_folder_path = <<>>
    /\ jpg_folder_path_hfs = <<>>
    /\ raw_files = <<>>
    /\ jpg_files = <<>>
    /\ unused_files_in_jpg_folder = <<>>
    /\ idx = 1
    /\ child = 0
    /\ out = <<>>
    /\ status = Running

\* get_filenames_of_folder_with_valid_extension(path, allowed_extensions)
ScanFolder ==
    /\ pc = "scan"
    /\ LET r == get_filenames_of_folder_with_valid_extension(
                    rawDir, allowed_extensions)
       IN  IF ~r.ok
           THEN Abort(r.err) /\ UNCHANGED raw_files
           ELSE /\ raw_files' = r.val
                /\ pc' = "scanned"
                /\ UNCHANGED status
    /\ UNCHANGED <<exe, rawDir, jpgDir, allowed_extensions, jpg_folder_path,
                   jpg_folder_path_hfs, jpg_files,
                   unused_files_in_jpg_folder, idx, child, out>>

NextScan == ScanFolder

SpecScan == InitScan /\ [][NextScan]_vars

ReadableItems(dir) == {i \in DOMAIN dir.items : dir.items[i].ok}

\* C3: the filtered scan fails exactly when the plain scan does; otherwise
\* the plain scan has one record per readable entry, and the filtered scan
\* is the records of the plain scan whose extension is one of the allowed
\* ones, in the same order; an entry whose extension differs from an
\* allowed one only in case is kept.
C3_FilteredScan ==
    LET all == get_filenames_of_folder(rawDir)
    IN  /\ pc = "failed" => ~rawDir.readable /\ ~all.ok
        /\ pc = "scanned" =>
             /\ rawDir.readable /\ all.ok
             /\ Len(all.val) = Cardinality(ReadableItems(rawDir))
             /\ IsOrderedSelection(
                    raw_files, all.val,
                    {i \in DOMAIN all.val :
                        \E k \in DOMAIN allowed_extensions :
                            allowed_extensions[k] = all.val[i].extension})
             /\ \A i \in ReadableItems(rawDir) :
                  LET n == rawDir.items[i].name
                      d == FinalDot(n)
                  IN  (/\ d > 1
                       /\ IsText(n)
                       /\ \E k \in DOMAIN allowed_extensions :
                            allowed_extensions[k] =
                                to_lowercase(SubSeq(n, d + 1, Len(n))))
                      => \E k \in DOMAIN raw_files : raw_files[k].filename = n

\* b.ARW is kept for the allowed extension arw, next to an entry that is not
C3_Witness ==
    /\ pc = "scanned"
    /\ allowed_extensions = RAW_ALLOWED_FILE_EXTENSIONS
    /\ Len(rawDir.items) = 2
    /\ Len(raw_files) = 1
    /\ raw_files[1].filename = <<"b", ".", "A", "R", "W">>

\* =========================================== find_duplicate_file alone
RecordPool ==
    { Filename_from(N(<<"a", ".", "j", "p", "g">>)),
      Filename_from(N(<<"a", ".", "j", "p", "e", "g">>)),
      Filename_from(N(<<"A", ".", "j", "p", "g">>)),
      Filename_from(N(<<"b", ".", "a", "r", "w">>)) }

RecordLists == UNION { [1..k -> RecordPool] : k \in 0..MaxRecs }

InitDiff ==
    /\ pc = "find_duplicate"
    /\ exe = Ok(<<>>)
    /\ rawDir = [readable |-> TRUE, items |-> <<>>]
    /\ jpgDir = [readable |-> TRUE, items |-> <<>>]
    /\ allowed_extensions = <<>>
    /\ jpg_folder_path = <<>>
    /\ jpg_folder_path_hfs = <<>>
    /\ raw_files \in RecordLists
    /\ jpg_files \in RecordLists
    /\ unused_files_in_jpg_folder = <<>>
    /\ idx = 1
    /\ child = 0
    /\ out = <<>>
    /\ status = Running

NextDiff == FindDuplicate

SpecDiff == InitDiff /\ [][NextDiff]_vars

\* the candidates with a stem equal to the stem of some reference record
MatchedCandidates ==
    {i \in DOMAIN jpg_files :
        \E j \in DOMAIN raw_files : raw_files[j].name = jpg_files[i].name}

\* C2: the result is the candidates whose stem is the stem of no reference
\* record, in the candidates' order and with their multiplicity; its length
\* is the number of candidates minus the number of matched candidates.
C2_Unmatched ==
    pc = "loop" =>
        /\ IsOrderedSelection(unused_files_in_jpg_folder, jpg_files,
                              DOMAIN jpg_files \ MatchedCandidates)
        /\ Len(unused_files_in_jpg_folder) =
               Len(jpg_files) - Cardinality(MatchedCandidates)

\* two candidates of one stem are both kept while a matched one is dropped
C2_Witness ==
    /\ pc = "loop"
    /\ Len(jpg_files) = 3
    /\ Len(unused_files_in_jpg_folder) = 2
    /\ unused_files_in_jpg_folder[1].name = unused_files_in_jpg_folder[2].name
    /\ unused_files_in_jpg_folder[1] # unused_files_in_jpg_folder[2]


\* ======================================================= the run of main
IsDeleteRun(e) == e.ev = "run" /\ e.kind = "delete"
IsOutcomeLine(e) ==
    e.ev = "print" /\ e.kind \in {"Deleted", "NotFound", "Other", "LaunchErr"}

\* the delete invocations issued so far, in order
DeleteRuns == SelectSeq(out, IsDeleteRun)
OutcomeLines == SelectSeq(out, IsOutcomeLine)

InLoop == pc \in {"loop", "delete_wait", "done"}

\* the positions, among the records J of the JPG folder, of those with
\* extension jpg or jpeg whose stem is the stem of no record of R with
\* extension arw
UnmatchedJpegs(J, R) ==
    {i \in DOMAIN J :
        /\ J[i].extension \in {<<"j", "p", "g">>, <<"j", "p", "e", "g">>}
        /\ \A j \in DOMAIN R :
               R[j].extension = <<"a", "r", "w">> => R[j].name # J[i].name}

\* C1: once the loop is reached, the delete invocations issued so far are
\* the first of the unmatched JPEGs of the JPG folder, in the folder's
\* order, one invocation each; when the run is done they are all of them.
C1_DeletesAreUnmatchedJpegs ==
    InLoop =>
        LET J == get_filenames_of_folder(jpgDir).val
            R == get_filenames_of_folder(rawDir).val
            U == UnmatchedJpegs(J, R)
            D == DeleteRuns
        IN  /\ Len(D) <= Cardinality(U)
            /\ \A i \in U :
                 LET k == Cardinality({j \in U : j <= i})
                 IN  k <= Len(D) => D[k].text = J[i].filename
            /\ pc = "done" => Len(D) = Cardinality(U)

\* a.jpg has a.arw and is spared; b.jpg has none and is the one deleted
C1_Witness ==
    /\ pc = "done"
    /\ Len(jpgDir.items) = 2
    /\ \E i \in DOMAIN rawDir.items :
           rawDir.items[i] = N(<<"a", ".", "a", "r", "w">>)
    /\ \E i \in DOMAIN jpgDir.items :
           jpgDir.items[i] = N(<<"a", ".", "j", "p", "g">>)
    /\ Len(DeleteRuns) = 1
    /\ DeleteRuns[1].text = <<"b", ".", "j", "p", "g">>

PreconditionErrors ==
    { "Could not get current executable path",
      "Could not get parent directory",
      "Could not get string from path",
      "Could not get string from path.",
      "Cannot get HFS convert Output",
      "Could not convert to utf8",
      "Could not read directory" }

C4_FailureIsPrecondition ==
    status.exit = "failure" =>
        /\ pc = "failed"
        /\ status.error \in PreconditionErrors
        /\ DeleteRuns = <<>>

C4_DoneIsSuccess ==
    pc = "done" =>
        /\ status.exit = "success"
        /\ out[Len(out)] = Line("Done", <<>>)
        /\ Len(DeleteRuns) = Len(unused_files_in_jpg_folder)
        /\ \A k \in DOMAIN DeleteRuns :
               DeleteRuns[k].text = unused_files_in_jpg_folder[k].filename

C4_LoopGoesOn ==
    (pc \in {"loop", "delete_wait"})
        => /\ pc' \in {"loop", "delete_wait", "done"}
           /\ status'.exit # "failure"
           /\ (pc' = "done" => idx > Len(unused_files_in_jpg_folder))

\* C4: the run fails only with the error of a precondition step and before
\* any delete; from the loop on, whatever a delete does, the next step is
\* the next delete or the end, and the end comes with every unmatched file
\* attempted, the completion line printed and the exit status success.
C4_OnlyPreconditionsFail ==
    /\ [](C4_FailureIsPrecondition /\ C4_DoneIsSuccess)
    /\ [][C4_LoopGoesOn]_vars

\* one file not found, one deleted, and the run succeeds
C4_Witness ==
    /\ pc = "done"
    /\ status.exit = "success"
    /\ \E i \in DOMAIN out : out[i].ev = "print" /\ out[i].kind = "NotFound"
    /\ \E i \in DOMAIN out : out[i].ev = "print" /\ out[i].kind = "Deleted"

\* C5: a run that ended with a fatal error has issued no delete invocation.
C5_FatalBeforeAnyDelete ==
    (pc = "failed" \/ status.exit = "failure") =>
        \A i \in DOMAIN out : ~IsDeleteRun(out[i])

\* the JPG folder cannot be listed, after the path was localized
C5_Witness ==
    /\ pc = "failed"
    /\ status.error = "Could not read directory"
    /\ rawDir.readable
    /\ \E i \in DOMAIN out : out[i].ev = "exit" /\ out[i].kind = "localize"


IsDeleteExit(e) == e.ev = "exit" /\ e.kind = "delete"

\* the bytes contain the text "29:106"
HasSignature(bytes) ==
    \E i \in DOMAIN bytes :
        /\ i + 5 <= Len(bytes)
        /\ \A k \in 1..6 : bytes[i + k - 1] = NotFoundSignature[k]

\* C6: a delete that cannot be started is followed by the line of the fixed
\* diagnostic; a delete that exits is followed by Deleted if it succeeded,
\* else by NotFound if its stderr contains "29:106", else by the line
\* carrying its stderr text; every outcome line follows one such call.
C6_Classification ==
    \A i \in DOMAIN out :
        /\ (IsDeleteRun(out[i]) /\ ~out[i].ok) =>
               /\ i < Len(out)
               /\ out[i + 1] = Line("LaunchErr", out[i].text)
        /\ (IsDeleteRun(out[i]) /\ out[i].ok) =>
               \/ i = Len(out) /\ pc = "delete_wait"
               \/ i < Len(out) /\ IsDeleteExit(out[i + 1])
        /\ IsDeleteExit(out[i]) =>
               /\ i > 1 /\ i < Len(out)
               /\ IsDeleteRun(out[i - 1]) /\ out[i - 1].ok
               /\ LET file == out[i - 1].text
                      err == out[i].text
                  IN  out[i + 1] =
                        IF out[i].ok THEN Line("Deleted", file)
                        ELSE IF HasSignature(err) THEN Line("NotFound", file)
                        ELSE Line("Other",
                                  [k \in DOMAIN err |->
                                      IF IsText(<<err[k]>>) THEN err[k]
                                      ELSE "U+FFFD"])
        /\ IsOutcomeLine(out[i]) =>
               /\ i > 1
               /\ \/ IsDeleteExit(out[i - 1])
                  \/ IsDeleteRun(out[i - 1]) /\ ~out[i - 1].ok

\* a run that reported a missing file and another failure
C6_Witness ==
    /\ pc = "done"
    /\ \E i \in DOMAIN out : out[i].ev = "print" /\ out[i].kind = "NotFound"
    /\ \E i \in DOMAIN out : out[i].ev = "print" /\ out[i].kind = "Other"

IsLocalizeExit(e) == e.ev = "exit" /\ e.kind = "localize"

\* C7 as stated: a localization whose osascript cannot be started, exits
\* with failure, or writes bytes that are not text ends the run with an
\* error and no delete; no run goes on with an empty localized path.
C7_AsClaimed ==
    /\ \A i \in DOMAIN out :
         (\/ out[i].ev = "run" /\ out[i].kind = "localize" /\ ~out[i].ok
          \/ IsLocalizeExit(out[i]) /\ ~out[i].ok
          \/ IsLocalizeExit(out[i]) /\ ~IsText(out[i].text))
         => pc = "failed" /\ DeleteRuns = <<>>
    /\ pc \in {"scan_raw", "scan_jpg", "find_duplicate", "loop",
               "delete_wait", "done"} => jpg_folder_path_hfs # <<>>

ActualStem(n) ==
    LET d == FinalDot(n) IN IF d <= 1 THEN n ELSE SubSeq(n, 1, d - 1)

\* C10 as stated: every delete names a non-empty file name that is the base
\* name of an entry of the JPG folder, and a JPEG record and a RAW record
\* have equal stems only if the entries' actual stems are equal.
C10_AsClaimed ==
    /\ \A i \in DOMAIN out :
         IsDeleteRun(out[i]) =>
             /\ out[i].text # <<>>
             /\ \E j \in ReadableItems(jpgDir) :
                    jpgDir.items[j].name = out[i].text
    /\ InLoop =>
         \A a \in ReadableItems(jpgDir), b \in ReadableItems(rawDir) :
            LET fa == Filename_from(jpgDir.items[a])
                fb == Filename_from(rawDir.items[b])
            IN  (/\ Contains(JPG_ALLOWED_FILE_EXTENSIONS, fa.extension)
                 /\ Contains(RAW_ALLOWED_FILE_EXTENSIONS, fb.extension)
                 /\ fa.name = fb.name)
                => ActualStem(jpgDir.items[a].name) =
                       ActualStem(rawDir.items[b].name)


PastLocalize ==
    pc \in {"scan_raw", "scan_jpg", "find_duplicate", "loop", "delete_wait",
            "done"}

\* C9 amended: at most one osascript process is outstanding; the output
\* begins with the one startup line; a run past the preconditions has had
\* one localization, started and exited before anything else; in the loop
\* the k-th delete invocation is for the k-th unmatched file, each is issued
\* only after the outcome line of the one before, each outcome line follows
\* the exit of its delete process or, when osascript could not be started,
\* the invocation itself, and the one completion line comes last, after as
\* many outcome lines as unmatched files.
C9_Order ==
    LET U == unused_files_in_jpg_folder
        D == DeleteRuns
        L == OutcomeLines
    IN  /\ child \in 0..1
        /\ child = 1 <=> pc \in {"localize_wait", "delete_wait"}
        /\ \A i \in DOMAIN out :
             out[i] = Line("Start", <<>>) <=> i = 1
        /\ PastLocalize =>
             /\ Len(out) >= 3
             /\ out[2].ev = "run" /\ out[2].kind = "localize" /\ out[2].ok
             /\ IsLocalizeExit(out[3])
             /\ \A i \in DOMAIN out : out[i].kind = "localize" => i \in {2, 3}
        /\ ~InLoop => D = <<>> /\ L = <<>>
        /\ InLoop =>
             /\ Len(D) <= Len(U)
             /\ \A k \in DOMAIN D :
                  /\ D[k].text = U[k].filename
                  /\ D[k].folder = jpg_folder_path_hfs
             /\ Len(L) = IF pc = "delete_wait" THEN Len(D) - 1 ELSE Len(D)
             /\ \A i \in 4..Len(out) :
                  /\ IsDeleteRun(out[i]) =>
                         i = 4 \/ IsOutcomeLine(out[i - 1])
                  /\ IsDeleteExit(out[i]) =>
                         IsDeleteRun(out[i - 1]) /\ out[i - 1].ok
                  /\ IsOutcomeLine(out[i]) =>
                         \/ IsDeleteExit(out[i - 1])
                         \/ IsDeleteRun(out[i - 1]) /\ ~out[i - 1].ok
                  /\ out[i] = Line("Done", <<>>) =>
                         /\ i = Len(out) /\ pc = "done"
                         /\ i = 4 \/ IsOutcomeLine(out[i - 1])
                  /\ \/ IsDeleteRun(out[i]) \/ IsDeleteExit(out[i])
                     \/ IsOutcomeLine(out[i]) \/ out[i] = Line("Done", <<>>)
             /\ pc = "done" =>
                  /\ out[Len(out)] = Line("Done", <<>>)
                  /\ Len(D) = Len(U)
                  /\ Len(L) = Len(U)

\* two unmatched files in turn: no process could be started for the first,
\* the second was deleted by a process that was awaited
C9_Witness ==
    /\ pc = "done"
    /\ Len(unused_files_in_jpg_folder) = 2
    /\ Len(out) = 9
    /\ IsDeleteRun(out[4]) /\ ~out[4].ok /\ IsOutcomeLine(out[5])
    /\ IsDeleteRun(out[6]) /\ out[6].ok
    /\ IsDeleteExit(out[7]) /\ IsOutcomeLine(out[8])

\* C9 as stated: the order above, and for each unmatched file a delete
\* process is started and awaited to exit before its outcome line.
C9_AsClaimed ==
    /\ C9_Order
    /\ \A i \in DOMAIN out :
         /\ IsDeleteRun(out[i]) => out[i].ok
         /\ IsOutcomeLine(out[i]) => i > 1 /\ IsDeleteExit(out[i - 1])

====
